---- MODULE Spec2Model ----
(***************************************************************************)
(* A model of the data pipeline of india-forestry-analytics:               *)
(* preprocessing.load_data with its helpers clean_state_name and           *)
(* clean_numeric, and the reading of its result in app.py.                 *)
(*                                                                         *)
(* Python strings are sequences of one-character strings.  A cell of a     *)
(* DataFrame is a record [t, v]:                                           *)
(*   Str(s)     a Python str;                                              *)
(*   Num(m, e)  the finite float m * 10^e (m has no trailing zero);        *)
(*   NaN        float('nan'), which is also pandas' missing cell;          *)
(*   Inf(sg)    float('inf') (sg = 1) or float('-inf') (sg = -1).          *)
(* A DataFrame is a record [cols, rows]: the set of its column names and   *)
(* the sequence of its rows, each row a function from cols to cells.       *)
(***************************************************************************)
EXTENDS Integers, Sequences, FiniteSets, TLC

VARIABLES
    pc,           \* position of load_data / the caller
    files,        \* the file system: path -> "ok", "missing", "unparsable", "denied"
    csv,          \* the four frames as pd.read_csv parsed them
    df_forest,    \* the four DataFrames of load_data
    df_tree,
    df_mangrove,
    df_agro,
    master_df,    \* the master DataFrame
    ret,          \* what load_data returned or raised
    val,          \* argument of a direct call of clean_numeric or clean_state_name
    out,          \* what that call returned
    map_metric    \* the metric selected on the Geospatial Intelligence page

vars == <<pc, files, csv, df_forest, df_tree, df_mangrove, df_agro, master_df, ret, val, out,
         map_metric>>

-----------------------------------------------------------------------------
(* Cells *)

Str(s) == [t |-> "str", v |-> s]
Num(m, e) == [t |-> "float", v |-> <<m, e>>]
NaN == [t |-> "nan", v |-> <<>>]
Inf(sg) == [t |-> "inf", v |-> <<sg>>]
\* the marker of a raised ValueError inside float()
ValueError == [t |-> "ValueError", v |-> <<>>]
\* the marker of a raised AttributeError inside clean_state_name
AttributeError == [t |-> "AttributeError", v |-> <<>>]
\* the value of a variable that holds nothing yet
None == [t |-> "None", v |-> <<>>]

isinstance_str(x) == x.t = "str"
isna(x) == x.t = "nan"

-----------------------------------------------------------------------------
(* Characters and the str methods the code uses *)

Lowers == <<"a", "b", "c", "d", "e", "f", "g", "h", "i", "j", "k", "l", "m",
            "n", "o", "p", "q", "r", "s", "t", "u", "v", "w", "x", "y", "z">>
Uppers == <<"A", "B", "C", "D", "E", "F", "G", "H", "I", "J", "K", "L", "M",
            "N", "O", "P", "Q", "R", "S", "T", "U", "V", "W", "X", "Y", "Z">>
Digits == <<"0", "1", "2", "3", "4", "5", "6", "7", "8", "9">>
Whitespace == {" ", "\t"}

IsLower(c) == \E i \in 1..Len(Lowers) : Lowers[i] = c
IsUpper(c) == \E i \in 1..Len(Uppers) : Uppers[i] = c
IsCased(c) == IsLower(c) \/ IsUpper(c)
IsDigit(c) == \E i \in 1..Len(Digits) : Digits[i] = c
ToUpper(c) == IF IsLower(c) THEN Uppers[CHOOSE i \in 1..Len(Lowers) : Lowers[i] = c] ELSE c
ToLower(c) == IF IsUpper(c) THEN Lowers[CHOOSE i \in 1..Len(Uppers) : Uppers[i] = c] ELSE c
DigitVal(c) == (CHOOSE i \in 1..Len(Digits) : Digits[i] = c) - 1

\* str.lower()
lower(s) == [i \in 1..Len(s) |-> ToLower(s[i])]

\* str.strip(): leading and trailing whitespace removed
RECURSIVE lstrip(_)
lstrip(s) == IF s # <<>> /\ Head(s) \in Whitespace THEN lstrip(Tail(s)) ELSE s
RECURSIVE rstrip(_)
rstrip(s) ==
    IF s # <<>> /\ s[Len(s)] \in Whitespace THEN rstrip(SubSeq(s, 1, Len(s) - 1)) ELSE s
\* a strip that forgets the trailing whitespace
strip_leading(s) == lstrip(s)

strip(s) == rstrip(lstrip(s))

\* str.title(): a cased character is upper-cased when the character before it
\* is not cased and lower-cased when it is; other characters are kept.
title(s) ==
    [i \in 1..Len(s) |->
        IF i > 1 /\ IsCased(s[i - 1]) THEN ToLower(s[i]) ELSE ToUpper(s[i])]

\* str.replace(old, '') for a one-character old
replace(s, old) == SelectSeq(s, LAMBDA c : c # old)

\* position of the first c in s, 0 when there is none
IndexOf(s, c) ==
    IF \E i \in 1..Len(s) : s[i] = c
    THEN CHOOSE i \in 1..Len(s) : s[i] = c /\ \A j \in 1..(i - 1) : s[j] # c
    ELSE 0

-----------------------------------------------------------------------------
(* clean_state_name, preprocessing.py:30-42 *)

Unknown == <<"U", "n", "k", "n", "o", "w", "n">>
AndhraPradesh == <<"A", "n", "d", "h", "r", "a", " ", "P", "r", "a", "d", "e", "s", "h">>
ArunachalPradesh ==
    <<"A", "r", "u", "n", "a", "c", "h", "a", "l", " ", "P", "r", "a", "d", "e", "s", "h">>
JammuKashmir ==
    <<"J", "a", "m", "m", "u", " ", "&", " ", "K", "a", "s", "h", "m", "i", "r">>
ANIslands == <<"A", " ", "&", " ", "N", " ", "I", "s", "l", "a", "n", "d", "s">>
AndamanNicobar ==
    <<"A", "n", "d", "a", "m", "a", "n", " ", "&", " ", "N", "i", "c", "o", "b", "a", "r">>
AndamanNicobarIslands ==
    <<"A", "n", "d", "a", "m", "a", "n", " ", "&", " ", "N", "i", "c", "o", "b", "a", "r",
      " ", "I", "s", "l", "a", "n", "d", "s">>

\* an alias table whose first alias points at another alias instead of at
\* the canonical name
replacements_chained ==
    (AndhraPradesh :> AndhraPradesh) @@ (ArunachalPradesh :> ArunachalPradesh)
        @@ (JammuKashmir :> JammuKashmir) @@ (ANIslands :> AndamanNicobar)
        @@ (AndamanNicobar :> AndamanNicobarIslands)

replacements ==
    (AndhraPradesh :> AndhraPradesh) @@ (ArunachalPradesh :> ArunachalPradesh)
        @@ (JammuKashmir :> JammuKashmir) @@ (ANIslands :> AndamanNicobarIslands)
        @@ (AndamanNicobar :> AndamanNicobarIslands)

\* dict.get(key, default)
get(d, key, default) == IF key \in DOMAIN d THEN d[key] ELSE default

\* name.strip() raises AttributeError for a name that is neither missing nor
\* a str (a float of a numeric column)
clean_state_name(name) ==
    IF isna(name) THEN Str(Unknown)
    ELSE IF ~isinstance_str(name) THEN AttributeError
    ELSE LET n == title(strip(name.v)) IN Str(get(replacements, n, n))

-----------------------------------------------------------------------------
(* float(str), preprocessing.py:72, and clean_numeric, preprocessing.py:68-75 *)

inf_lit == <<"i", "n", "f">>
infinity_lit == <<"i", "n", "f", "i", "n", "i", "t", "y">>
nan_lit == <<"n", "a", "n">>

\* digit (["_"] digit)*
digitpart(s) ==
    /\ Len(s) > 0
    /\ IsDigit(s[1])
    /\ IsDigit(s[Len(s)])
    /\ \A i \in 1..Len(s) : IsDigit(s[i]) \/ s[i] = "_"
    /\ \A i \in 1..(Len(s) - 1) : ~(s[i] = "_" /\ s[i + 1] = "_")

RECURSIVE IntOf(_)
IntOf(ds) ==
    IF ds = <<>> THEN 0
    ELSE 10 * IntOf(SubSeq(ds, 1, Len(ds) - 1)) + DigitVal(ds[Len(ds)])

\* the value of the digits of s, underscores dropped
DigitsOf(s) == SelectSeq(s, IsDigit)

RECURSIVE NDigits(_)
NDigits(m) == IF m < 10 THEN 1 ELSE 1 + NDigits(m \div 10)

RECURSIVE Pow10(_)
Pow10(k) == IF k = 0 THEN 1 ELSE 10 * Pow10(k - 1)

\* m * 10^e with the trailing zeros of m moved into e
RECURSIVE Norm(_, _, _)
Norm(sg, m, e) ==
    IF m = 0 THEN Num(0, 0)
    ELSE IF m % 10 = 0 THEN Norm(sg, m \div 10, e + 1)
    ELSE Num(sg * m, e)

\* The nine leading digits of m (m < 10^9), for the comparison with the
\* largest double 1.7976931348623157e308 and with half the smallest
\* subnormal, 2.4703282292062327e-324.
Lead9(m) == m * Pow10(9 - NDigits(m))
MaxDoubleLead == 179769314
MaxDoubleExp == 308
HalfMinLead == 247032822
HalfMinExp == 0 - 324

\* The IEEE double nearest to sg * m * 10^e: infinite beyond the largest
\* double, zero below half the smallest subnormal.  (A subnormal result is
\* kept as the decimal that was read.)
to_double(sg, m, e) ==
    IF m = 0 THEN Num(0, 0)
    ELSE LET E == NDigits(m) + e - 1 IN
         IF E > MaxDoubleExp \/ (E = MaxDoubleExp /\ Lead9(m) >= MaxDoubleLead)
         THEN Inf(sg)
         ELSE IF E < HalfMinExp \/ (E = HalfMinExp /\ Lead9(m) <= HalfMinLead)
         THEN Num(0, 0)
         ELSE Norm(sg, m, e)

\* the decimal-literal branch of float(s)
float_decimal(s) ==
    LET t == strip(s)
        signed == t # <<>> /\ Head(t) \in {"+", "-"}
        sg == IF signed /\ Head(t) = "-" THEN 0 - 1 ELSE 1
        u == lower(IF signed THEN Tail(t) ELSE t)
        ei == IndexOf(u, "e")
        mant == IF ei = 0 THEN u ELSE SubSeq(u, 1, ei - 1)
        ex == IF ei = 0 THEN <<>> ELSE SubSeq(u, ei + 1, Len(u))
        exsigned == ex # <<>> /\ Head(ex) \in {"+", "-"}
        exsg == IF exsigned /\ Head(ex) = "-" THEN 0 - 1 ELSE 1
        exdigits == IF exsigned THEN Tail(ex) ELSE ex
        di == IndexOf(mant, ".")
        ip == IF di = 0 THEN mant ELSE SubSeq(mant, 1, di - 1)
        fp == IF di = 0 THEN <<>> ELSE SubSeq(mant, di + 1, Len(mant))
        okm == IF di = 0 THEN digitpart(mant)
               ELSE /\ ip = <<>> \/ digitpart(ip)
                    /\ fp = <<>> \/ digitpart(fp)
                    /\ ~(ip = <<>> /\ fp = <<>>)
        oke == ei = 0 \/ digitpart(exdigits)
    IN  IF ~(okm /\ oke) THEN ValueError
        ELSE to_double(sg, IntOf(DigitsOf(ip) \o DigitsOf(fp)),
                       exsg * IntOf(DigitsOf(exdigits)) - Len(DigitsOf(fp)))

\* float(s) for a str s: surrounding whitespace is ignored; an optional sign;
\* then inf, infinity or nan in any letter case, or a decimal literal
\* [digits][.digits][(e|E)[sign]digits] with single underscores between
\* digits; anything else raises ValueError.
float(s) ==
    LET t == strip(s)
        signed == t # <<>> /\ Head(t) \in {"+", "-"}
        sg == IF signed /\ Head(t) = "-" THEN 0 - 1 ELSE 1
        u == lower(IF signed THEN Tail(t) ELSE t)
    IN  IF u = inf_lit \/ u = infinity_lit THEN Inf(sg)
        ELSE IF u = nan_lit THEN NaN
        ELSE float_decimal(s)

\* a clean_numeric whose except clause lets the failure through
clean_numeric_no_except(x) ==
    IF isinstance_str(x) THEN float(replace(x.v, ",")) ELSE x

clean_numeric(x) ==
    IF isinstance_str(x)
    THEN LET r == float(replace(x.v, ",")) IN
         IF r = ValueError THEN Num(0, 0) ELSE r
    ELSE x

-----------------------------------------------------------------------------
(* DataFrames and the pandas operations load_data uses *)

DataFrame(cols, rows) == [cols |-> cols, rows |-> rows]

\* df[col] = v for every row: a new column, or an existing one overwritten
with_cell(row, col, v) == [c \in DOMAIN row \cup {col} |-> IF c = col THEN v ELSE row[c]]

\* df[cols]: the frame restricted to cols
select(df, cols) ==
    DataFrame(cols, [i \in 1..Len(df.rows) |-> [c \in cols |-> df.rows[i][c]]])

\* df['State'] = df[col].apply(clean_state_name), when col is a column of df
standardize(df, col) ==
    IF col \in df.cols
    THEN DataFrame(df.cols \cup {"State"},
                   [i \in 1..Len(df.rows) |->
                       with_cell(df.rows[i], "State", clean_state_name(df.rows[i][col]))])
    ELSE df

\* an apply(clean_state_name) of the frame raised AttributeError
name_failed(df) ==
    "State" \in df.cols /\ \E i \in 1..Len(df.rows) : df.rows[i]["State"] = AttributeError

\* df[col] = df[col].apply(clean_numeric), when col is a column of df
convert(df, col) ==
    IF col \in df.cols
    THEN DataFrame(df.cols,
                   [i \in 1..Len(df.rows) |->
                       with_cell(df.rows[i], col, clean_numeric(df.rows[i][col]))])
    ELSE df

\* the rows of right whose State is that of the left row l, in right's order
matches(l, rrows) == SelectSeq(rrows, LAMBDA r : r["State"] = l["State"])

\* the rows a left join gives for the left row l: one per match, or one with
\* a missing cell when nothing matches
joined(l, rrows, col) ==
    LET ms == matches(l, rrows) IN
    IF ms = <<>> THEN <<with_cell(l, col, NaN)>>
    ELSE [i \in 1..Len(ms) |-> with_cell(l, col, ms[i][col])]

RECURSIVE left_rows(_, _, _)
left_rows(lrows, rrows, col) ==
    IF lrows = <<>> THEN <<>>
    ELSE joined(Head(lrows), rrows, col) \o left_rows(Tail(lrows), rrows, col)

\* an inner join: a left row without a match is dropped
RECURSIVE inner_rows(_, _, _)
inner_rows(lrows, rrows, col) ==
    IF lrows = <<>> THEN <<>>
    ELSE (IF matches(Head(lrows), rrows) = <<>> THEN <<>>
          ELSE joined(Head(lrows), rrows, col))
         \o inner_rows(Tail(lrows), rrows, col)

merge_inner(left, right, col) ==
    DataFrame(left.cols \cup {col}, inner_rows(left.rows, right.rows, col))

\* the left rows without a match, each with a missing cell
RECURSIVE unmatched_rows(_, _, _)
unmatched_rows(lrows, rrows, col) ==
    IF lrows = <<>> THEN <<>>
    ELSE (IF matches(Head(lrows), rrows) = <<>> THEN <<with_cell(Head(lrows), col, NaN)>>
          ELSE <<>>)
         \o unmatched_rows(Tail(lrows), rrows, col)

\* a left join that lists the matched rows first and the unmatched ones last
merge_unmatched_last(left, right, col) ==
    DataFrame(left.cols \cup {col},
              inner_rows(left.rows, right.rows, col)
                  \o unmatched_rows(left.rows, right.rows, col))

\* pd.merge(left, right[['State', col]], on='State', how='left')
merge(left, right, col) ==
    DataFrame(left.cols \cup {col}, left_rows(left.rows, right.rows, col))

\* a fillna that fills nothing
fillna_nothing(df) == df

\* df.fillna(0, inplace=True): every missing cell becomes 0 (0 and 0.0 are the
\* same number, Num(0, 0))
fillna(df) ==
    DataFrame(df.cols,
              [i \in 1..Len(df.rows) |->
                  [c \in df.cols |-> IF isna(df.rows[i][c]) THEN Num(0, 0) ELSE df.rows[i][c]]])

-----------------------------------------------------------------------------
(* The contents of the four CSV files *)

MaxForestRows == 2
MaxTreeRows == 2
MaxAgroRows == 1

\* raw cells
raw_andhra_lower ==
    Str(<<" ", "a", "n", "d", "h", "r", "a", " ", "p", "r", "a", "d", "e", "s", "h", " ">>)
raw_andhra_upper ==
    Str(<<"A", "N", "D", "H", "R", "A", " ", "P", "R", "A", "D", "E", "S", "H">>)
raw_andhra == Str(AndhraPradesh)
raw_sikkim == Str(<<"S", "i", "k", "k", "i", "m">>)
raw_goa == Str(<<"G", "o", "a">>)
raw_275069 == Str(<<"2", ",", "7", "5", ",", "0", "6", "9">>)
raw_162968 == Str(<<"1", ",", "6", "2", ",", "9", "6", "8">>)
raw_1234 == Str(<<"1", ",", "2", "3", "4">>)
raw_1200 == Str(<<"1", ",", "2", "0", "0">>)
raw_inf == Str(inf_lit)

SeqsUpTo(S, n) == UNION {[1..k -> S] : k \in 0..n}

\* pd.read_csv gives a column one dtype: its cells are not both text and numbers
one_dtype(rows, cols) ==
    \A c \in cols :
        ~(/\ \E i \in 1..Len(rows) : rows[i][c].t = "str"
          /\ \E i \in 1..Len(rows) : rows[i][c].t \in {"float", "inf"})

Frames(cols, rowset, n) ==
    {DataFrame(cols, rows) : rows \in {r \in SeqsUpTo(rowset, n) : one_dtype(r, cols)}}

ForestRow(n, a, g) ==
    ("State/UTs" :> n) @@ ("Recorded Forest Area - Total" :> a) @@ ("Geographical Area" :> g)
ForestRows ==
    {ForestRow(n, a, raw_162968) : n \in {raw_andhra_lower, raw_sikkim}, a \in {raw_275069, raw_inf}}
ForestFrames ==
    Frames({"State/UTs", "Recorded Forest Area - Total", "Geographical Area"},
           ForestRows, MaxForestRows)

TreeRow(n, a) == ("State/ Uts" :> n) @@ ("Tree Cover - Area" :> a)
TreeRows == {TreeRow(raw_andhra, raw_1234), TreeRow(raw_andhra, NaN), TreeRow(raw_goa, raw_1234)}
TreeFrames == Frames({"State/ Uts", "Tree Cover - Area"}, TreeRows, MaxTreeRows)

AgroRow(n, a) == ("States" :> n) @@ ("Precipitation_mm" :> a)
AgroRows ==
    {AgroRow(raw_andhra_upper, Num(912, 0)), AgroRow(raw_andhra_upper, raw_1200),
     AgroRow(raw_goa, Num(3005, 0))}
AgroRowsNoRain == {("States" :> n) : n \in {raw_andhra_upper, raw_goa}}
AgroFrames ==
    Frames({"States", "Precipitation_mm"}, AgroRows, MaxAgroRows)
        \cup Frames({"States"}, AgroRowsNoRain, MaxAgroRows)

MangroveRow == ("state" :> raw_andhra) @@ ("year" :> Num(2023, 0)) @@ ("value" :> Num(404, 0))
MangroveFrames ==
    {DataFrame({"state", "year", "value"}, <<MangroveRow>>),
     DataFrame({"year", "value"}, <<[c \in {"year", "value"} |-> MangroveRow[c]]>>)}

-----------------------------------------------------------------------------
(* load_data, preprocessing.py:4-113 *)

forest_path == "Recorded_Forest_Area.csv"
tree_path == "StatewiseTreeCover.csv"
mangrove_path ==
    "19360- Dataful/mangroves-year-and-state-wise-mangrove-forest-cover-in-india-since-1987.csv"
agro_path == "Agro_India_States.csv"

\* the files in the order load_data reads them
Sources == <<forest_path, tree_path, mangrove_path, agro_path>>

\* the first file, in reading order, that pd.read_csv cannot read (0: none)
first_failed(fs) ==
    IF \E i \in 1..Len(Sources) : fs[Sources[i]] # "ok"
    THEN CHOOSE i \in 1..Len(Sources) :
            fs[Sources[i]] # "ok" /\ \A j \in 1..(i - 1) : fs[Sources[j]] = "ok"
    ELSE 0

\* what pd.read_csv raises for a file it cannot read
read_error(status) ==
    CASE status = "missing" -> "FileNotFoundError"
      [] status = "unparsable" -> "ParserError"
      [] status = "denied" -> "PermissionError"

\* f"Error loading file: {e}" for the FileNotFoundError of path
error_message(path) == [msg |-> "Error loading file: ", errno |-> 2, filename |-> path]

Returned(tables, error) == [kind |-> "return", tables |-> tables, error |-> error]
Raised(exc, path) == [kind |-> "raise", tables |-> None, error |-> [exc |-> exc, filename |-> path]]

\* sections 2 and 3 of load_data, per frame
clean_forest(f) ==
    convert(convert(standardize(f, "State/UTs"), "Geographical Area"),
            "Recorded Forest Area - Total")
clean_tree(t) == convert(standardize(t, "State/ Uts"), "Tree Cover - Area")
clean_mangrove(m) == convert(standardize(m, "state"), "value")
clean_agro(a) == standardize(a, "States")

\* clean_state_name raised inside one of the four apply calls
attribute_error(F, T, M, A) ==
    name_failed(F) \/ name_failed(T) \/ name_failed(M) \/ name_failed(A)

\* a column selection of section 4 names a column the frame does not have
key_error(F, T, A) ==
    \/ ~({"State", "Recorded Forest Area - Total", "Geographical Area"} \subseteq F.cols)
    \/ ~({"State", "Tree Cover - Area"} \subseteq T.cols)
    \/ "Precipitation_mm" \in A.cols /\ "State" \notin A.cols

\* section 4 of load_data: the master frame of the cleaned frames
build_master(F, T, A) ==
    LET base == select(F, {"State", "Recorded Forest Area - Total", "Geographical Area"})
        with_tree == merge(base, T, "Tree Cover - Area")
        with_agro == IF "Precipitation_mm" \in A.cols
                     THEN merge(with_tree, A, "Precipitation_mm")
                     ELSE with_tree
    IN  fillna(with_agro)

\* load_data() on the file system files, the readable files parsing to one of
\* the given frames each; f, t, m, a are what they parse to, F, T, M, A the
\* frames after sections 2 and 3
load_data_of(forests, trees, mangroves, agros) ==
    /\ pc = "start"
    /\ \/ \* a file is missing: the except clause returns the error
          /\ first_failed(files) # 0
          /\ files[Sources[first_failed(files)]] = "missing"
          /\ ret' = Returned(None, error_message(Sources[first_failed(files)]))
          /\ pc' = "returned"
          /\ UNCHANGED <<csv, df_forest, df_tree, df_mangrove, df_agro, master_df>>
       \/ \* a file cannot be read for another reason: nothing catches it
          /\ first_failed(files) # 0
          /\ files[Sources[first_failed(files)]] # "missing"
          /\ ret' = Raised(read_error(files[Sources[first_failed(files)]]),
                           Sources[first_failed(files)])
          /\ pc' = "raised"
          /\ UNCHANGED <<csv, df_forest, df_tree, df_mangrove, df_agro, master_df>>
       \/ \* the four files are read
          /\ first_failed(files) = 0
          /\ \E f \in forests : \E F \in {clean_forest(f)} :
             \E t \in trees : \E T \in {clean_tree(t)} :
             \E m \in mangroves : \E M \in {clean_mangrove(m)} :
             \E a \in agros : \E A \in {clean_agro(a)} :
                /\ csv' = [forest |-> f, tree |-> t, mangrove |-> m, agro |-> a]
                /\ IF attribute_error(F, T, M, A) \/ key_error(F, T, A)
                   THEN /\ ret' = Raised(IF attribute_error(F, T, M, A)
                                         THEN "AttributeError" ELSE "KeyError", "")
                        /\ pc' = "raised"
                        /\ UNCHANGED <<df_forest, df_tree, df_mangrove, df_agro, master_df>>
                   ELSE /\ df_forest' = F
                        /\ df_tree' = T
                        /\ df_mangrove' = M
                        /\ df_agro' = A
                        /\ master_df' = build_master(F, T, A)
                        /\ ret' = Returned([forest |-> F, tree |-> T, mangrove |-> M,
                                            agro |-> A, master |-> master_df'], None)
                        /\ pc' = "returned"
    /\ UNCHANGED <<files, val, out, map_metric>>

load_data == load_data_of(ForestFrames, TreeFrames, MangroveFrames, AgroFrames)

\* app.py:78-88: the dashboard stops on an error and reads the tables otherwise
get_data ==
    /\ pc = "returned"
    /\ \/ ret.error # None /\ pc' = "stopped"
       \/ ret.error = None /\ pc' = "ready"
    /\ UNCHANGED <<files, csv, df_forest, df_tree, df_mangrove, df_agro, master_df, ret, val, out,
                   map_metric>>

Init ==
    /\ pc = "start"
    /\ files \in [{forest_path, tree_path, mangrove_path, agro_path} ->
                    {"ok", "missing", "unparsable", "denied"}]
    /\ csv = None
    /\ df_forest = None
    /\ df_tree = None
    /\ df_mangrove = None
    /\ df_agro = None
    /\ master_df = None
    /\ ret = None
    /\ map_metric = None
    /\ val = None
    /\ out = None

Next == load_data \/ get_data

Spec == Init /\ [][Next]_vars

-----------------------------------------------------------------------------
(* clean_numeric alone: every short string over the characters that matter *)
(* to float(), and some longer ones                                        *)

MaxStrLen == 4

NumericAlphabet == {"1", "e", ",", ".", "-", " ", "n", "a", "i", "f"}

raw_na == Str(<<"N", "/", "A">>)
raw_1e999 == Str(<<"1", "e", "9", "9", "9">>)

NumericInputs ==
    {Str(s) : s \in SeqsUpTo(NumericAlphabet, MaxStrLen)}
        \cup {raw_275069, raw_1234, raw_na, raw_1e999, Str(infinity_lit), NaN, Num(0 - 5, 0)}

InitNumeric ==
    /\ pc = "numeric"
    /\ val \in NumericInputs
    /\ out = None
    /\ files = [p \in {forest_path, tree_path, mangrove_path, agro_path} |-> "ok"]
    /\ csv = None
    /\ df_forest = None
    /\ df_tree = None
    /\ df_mangrove = None
    /\ df_agro = None
    /\ master_df = None
    /\ ret = None
    /\ map_metric = None

call_clean_numeric ==
    /\ pc = "numeric"
    /\ out' = clean_numeric(val)
    /\ pc' = "numeric_done"
    /\ UNCHANGED <<files, csv, df_forest, df_tree, df_mangrove, df_agro, master_df, ret, val,
                   map_metric>>

NextNumeric == call_clean_numeric

SpecNumeric == InitNumeric /\ [][NextNumeric]_vars

-----------------------------------------------------------------------------
(* clean_state_name alone, applied once and then to its own result *)

MaxNameLen == 4

NameAlphabet == {"a", "N", " ", "&", "1", "-"}

raw_an_islands ==
    Str(<<"a", " ", "&", " ", "n", " ", "i", "s", "l", "a", "n", "d", "s">>)

NameInputs ==
    {Str(s) : s \in SeqsUpTo(NameAlphabet, MaxNameLen)}
        \cup {Str(k) : k \in DOMAIN replacements}
        \cup {Str(replacements[k]) : k \in DOMAIN replacements}
        \cup {Str(lower(k)) : k \in DOMAIN replacements}
        \cup {Str(<<" ">> \o lower(replacements[k]) \o <<"\t">>) : k \in DOMAIN replacements}
        \cup {raw_an_islands, raw_andhra_lower, raw_andhra_upper, raw_sikkim, Str(Unknown),
              Str(lower(Unknown)), NaN}

InitName ==
    /\ pc = "name"
    /\ val \in NameInputs
    /\ out = <<>>
    /\ files = [p \in {forest_path, tree_path, mangrove_path, agro_path} |-> "ok"]
    /\ csv = None
    /\ df_forest = None
    /\ df_tree = None
    /\ df_mangrove = None
    /\ df_agro = None
    /\ master_df = None
    /\ ret = None
    /\ map_metric = None

call_clean_state_name ==
    /\ pc = "name"
    /\ out' = <<clean_state_name(val)>>
    /\ pc' = "name_once"
    /\ UNCHANGED <<files, csv, df_forest, df_tree, df_mangrove, df_agro, master_df, ret, val,
                   map_metric>>

call_clean_state_name_again ==
    /\ pc = "name_once"
    /\ out' = Append(out, clean_state_name(out[1]))
    /\ pc' = "name_twice"
    /\ UNCHANGED <<files, csv, df_forest, df_tree, df_mangrove, df_agro, master_df, ret, val,
                   map_metric>>

NextName == call_clean_state_name \/ call_clean_state_name_again

SpecName == InitName /\ [][NextName]_vars

-----------------------------------------------------------------------------
(* The Geospatial Intelligence page, app.py:285-315, with mangrove files of *)
(* several rows per State and year                                          *)

MapMetrics ==
    {"Recorded Forest Area - Total", "Tree Cover - Area", "Precipitation_mm", "Mangroves (2023)"}

\* df[df['year'] == 2023]
year_2023(df) ==
    DataFrame(df.cols, SelectSeq(df.rows, LAMBDA r : r["year"] = Num(2023, 0)))

\* df.rename(columns={old: new}), old a column of df
rename(df, old, new) ==
    DataFrame((df.cols \ {old}) \cup {new},
              [i \in 1..Len(df.rows) |->
                  [c \in (df.cols \ {old}) \cup {new} |->
                      IF c = new THEN df.rows[i][old] ELSE df.rows[i][c]]])

\* df[col] = df[col].fillna(0)
fillna_column(df, col) ==
    DataFrame(df.cols,
              [i \in 1..Len(df.rows) |->
                  [c \in df.cols |->
                      IF c = col /\ isna(df.rows[i][c]) THEN Num(0, 0) ELSE df.rows[i][c]]])

\* app.py:310-315: the 2023 mangrove values appended to the master frame
with_mangroves(master, mangrove) ==
    fillna_column(
        IF "Mangroves (2023)" \notin master.cols
        THEN rename(merge(master, year_2023(mangrove), "value"), "value", "Mangroves (2023)")
        ELSE master,
        "Mangroves (2023)")

\* the selections of app.py:312-314 name a column the mangrove frame lacks
mangrove_key_error(mangrove) == ~({"year", "State", "value"} \subseteq mangrove.cols)

\* the page is opened with one of the four metrics selected
geo_page ==
    /\ pc = "ready"
    /\ \E metric \in MapMetrics :
          /\ map_metric' = metric
          /\ IF metric # "Mangroves (2023)"
             THEN pc' = "map" /\ master_df' = master_df
             ELSE IF mangrove_key_error(df_mangrove)
             THEN pc' = "crashed" /\ master_df' = master_df
             ELSE pc' = "map" /\ master_df' = with_mangroves(master_df, df_mangrove)
    /\ UNCHANGED <<files, csv, df_forest, df_tree, df_mangrove, df_agro, ret, val, out>>

MaxMangroveRows == 2

GeoForestFrames ==
    Frames({"State/UTs", "Recorded Forest Area - Total", "Geographical Area"},
           {ForestRow(raw_andhra_lower, raw_275069, raw_162968),
            ForestRow(raw_sikkim, raw_275069, raw_162968)},
           MaxForestRows)
GeoTreeFrames ==
    {DataFrame({"State/ Uts", "Tree Cover - Area"}, <<TreeRow(raw_andhra, raw_1234)>>)}
GeoAgroFrames ==
    {DataFrame({"States", "Precipitation_mm"}, <<AgroRow(raw_andhra_upper, Num(912, 0))>>)}

GeoMangroveRow(n, y, a) == ("state" :> n) @@ ("year" :> y) @@ ("value" :> a)
GeoMangroveRows ==
    {GeoMangroveRow(raw_andhra, Num(2023, 0), Num(404, 0)),
     GeoMangroveRow(raw_andhra, Num(2023, 0), Num(33, 1)),
     GeoMangroveRow(raw_andhra, Num(2021, 0), Num(404, 0)),
     GeoMangroveRow(raw_goa, Num(2023, 0), Num(26, 0))}
GeoMangroveFrames ==
    Frames({"state", "year", "value"}, GeoMangroveRows, MaxMangroveRows)
        \cup MangroveFrames

load_data_geo == load_data_of(GeoForestFrames, GeoTreeFrames, GeoMangroveFrames, GeoAgroFrames)

NextGeo == load_data_geo \/ get_data \/ geo_page

SpecGeo == Init /\ [][NextGeo]_vars

-----------------------------------------------------------------------------
(* Properties of load_data *)

\* load_data returned its tables
Succeeded == pc \in {"returned", "ready"} /\ ret.kind = "return" /\ ret.error = None

\* the State values of a frame
States(df) == {df.rows[i]["State"] : i \in 1..Len(df.rows)}

\* the rows of a frame whose State is s
RowsOf(df, s) == {i \in 1..Len(df.rows) : df.rows[i]["State"] = s}

IsZero(x) == x.t = "float" /\ x.v = <<0, 0>>

\* C1: after a successful load_data the master frame has exactly as many
\* rows as the cleaned Forest frame.
C1_RowCount == Succeeded => Len(master_df.rows) = Len(df_forest.rows)

\* C2: after a successful load_data the State values of the master frame are
\* exactly the State values of the cleaned Forest frame: a State only in the
\* Tree or Agro frame adds no row and no Forest State is dropped.
C2_SameStates == Succeeded => States(master_df) = States(df_forest)

C2_Witness ==
    /\ Succeeded
    /\ Len(df_forest.rows) = 2
    /\ States(df_tree) \ States(df_forest) # {}
    /\ States(df_agro) \ States(df_forest) # {}
    /\ States(df_forest) \ States(df_tree) # {}
    /\ States(df_forest) \cap States(df_tree) # {}
    /\ States(master_df) = States(df_forest)

\* C3: whenever one of the four files is missing, load_data returns no
\* tables and one error message naming a missing file, and builds no master
\* frame.
C3_MissingFile ==
    (pc # "start" /\ \E p \in DOMAIN files : files[p] = "missing")
        => /\ ret.kind = "return"
           /\ ret.tables = None
           /\ \E p \in DOMAIN files : files[p] = "missing" /\ ret.error = error_message(p)
           /\ master_df = None

\* C4: whenever a file cannot be read, for whatever reason, load_data ends
\* by returning no tables and one error value that names the failing file.
C4_Unreadable ==
    (pc # "start" /\ first_failed(files) # 0)
        => /\ ret.kind = "return"
           /\ ret.tables = None
           /\ ret.error = error_message(Sources[first_failed(files)])

\* C5: after a successful load_data every numeric cell of the master frame
\* is a finite float: not missing, not a str, not NaN, not infinite.
C5_FiniteFloats ==
    Succeeded =>
        \A i \in 1..Len(master_df.rows) : \A c \in master_df.cols \ {"State"} :
            master_df.rows[i][c].t = "float"

\* C6: a Forest State without a row in the Tree (Agro) frame still has its
\* master row, whose tree-cover (rainfall) cell is 0.0.
C6_ZeroFill ==
    Succeeded =>
        \A s \in States(df_forest) :
            /\ s \notin States(df_tree) =>
                /\ RowsOf(master_df, s) # {}
                /\ \A i \in RowsOf(master_df, s) :
                      IsZero(master_df.rows[i]["Tree Cover - Area"])
            /\ ("Precipitation_mm" \in df_agro.cols /\ s \notin States(df_agro)) =>
                /\ RowsOf(master_df, s) # {}
                /\ \A i \in RowsOf(master_df, s) :
                      IsZero(master_df.rows[i]["Precipitation_mm"])

C6_Witness ==
    /\ Succeeded
    /\ "Precipitation_mm" \in df_agro.cols
    /\ \E s \in States(df_forest) :
          /\ s = raw_sikkim
          /\ s \notin States(df_tree)
          /\ s \notin States(df_agro)
          /\ \E i \in RowsOf(master_df, s) :
                /\ IsZero(master_df.rows[i]["Tree Cover - Area"])
                /\ IsZero(master_df.rows[i]["Precipitation_mm"])

\* C10: a Forest row " andhra pradesh " with forest area "2,75,069" and a
\* Tree row "Andhra Pradesh" with tree cover "1,234", each the only row of
\* its file for that region (and the Agro file holding at most one), give
\* exactly one master row "Andhra Pradesh", with forest area 275069.0 and
\* tree cover 1234.0.
AndhraSpellings == {raw_andhra_lower, raw_andhra_upper, raw_andhra}

C10_Given ==
    /\ Succeeded
    /\ \E i \in 1..Len(csv.forest.rows) :
          /\ csv.forest.rows[i]["State/UTs"] = raw_andhra_lower
          /\ csv.forest.rows[i]["Recorded Forest Area - Total"] = raw_275069
          /\ \A j \in 1..Len(csv.forest.rows) :
                csv.forest.rows[j]["State/UTs"] \in AndhraSpellings => j = i
    /\ \E i \in 1..Len(csv.tree.rows) :
          /\ csv.tree.rows[i]["State/ Uts"] = raw_andhra
          /\ csv.tree.rows[i]["Tree Cover - Area"] = raw_1234
          /\ \A j \in 1..Len(csv.tree.rows) :
                csv.tree.rows[j]["State/ Uts"] \in AndhraSpellings => j = i
    /\ \A i, j \in 1..Len(csv.agro.rows) :
          (csv.agro.rows[i]["States"] \in AndhraSpellings
              /\ csv.agro.rows[j]["States"] \in AndhraSpellings) => i = j

C10_Then ==
    /\ Cardinality(RowsOf(master_df, Str(AndhraPradesh))) = 1
    /\ \A i \in RowsOf(master_df, Str(AndhraPradesh)) :
          /\ master_df.rows[i]["Recorded Forest Area - Total"] = Num(275069, 0)
          /\ master_df.rows[i]["Tree Cover - Area"] = Num(1234, 0)

C10_Scenario == C10_Given => C10_Then

C10_Witness == C10_Given /\ C10_Then /\ Len(csv.forest.rows) = 2

\* every row of the frame has a canonical State
HasStates(df) ==
    /\ "State" \in df.cols
    /\ \A i \in 1..Len(df.rows) : isinstance_str(df.rows[i]["State"])

\* C11: after a successful load_data each of the four cleaned frames has the
\* State column and every one of its rows holds a canonical State in it.
C11_StateEverywhere ==
    Succeeded =>
        HasStates(df_forest) /\ HasStates(df_tree) /\ HasStates(df_mangrove) /\ HasStates(df_agro)

\* the State column of a frame, as a sequence
StateColumn(df) == [i \in 1..Len(df.rows) |-> df.rows[i]["State"]]

\* m is f with each element repeated one or more times in place
RECURSIVE Expands(_, _)
Expands(m, f) ==
    IF f = <<>> THEN m = <<>>
    ELSE /\ m # <<>>
         /\ Head(m) = Head(f)
         /\ Expands(Tail(m), Tail(f)) \/ Expands(Tail(m), f)

\* C12: after a successful load_data the State column of the master frame
\* runs through the States of the cleaned Forest frame in the Forest frame's
\* order (a State repeated only where a join matched several rows).
C12_ForestOrder == Succeeded => Expands(StateColumn(master_df), StateColumn(df_forest))

C12_Witness ==
    /\ Succeeded
    /\ StateColumn(df_forest) = <<raw_sikkim, raw_andhra>>
    /\ StateColumn(df_tree) = <<raw_andhra, raw_andhra>>
    /\ "Precipitation_mm" \in df_agro.cols
    /\ StateColumn(df_agro) = <<raw_andhra>>
    /\ StateColumn(master_df) = <<raw_sikkim, raw_andhra, raw_andhra>>

\* the master frame the page started from: the one load_data returned
Loaded == ret.tables.master

\* C13: appending the 2023 mangrove column on the geospatial page keeps the
\* master rows as they were (their number, States, order and cells) and only
\* adds the new column, 0 where the State has no 2023 mangrove row.
C13_OnlyAddsColumn ==
    (pc = "map" /\ map_metric = "Mangroves (2023)") =>
        /\ master_df.cols = Loaded.cols \cup {"Mangroves (2023)"}
        /\ Len(master_df.rows) = Len(Loaded.rows)
        /\ \A i \in 1..Len(Loaded.rows) :
              /\ \A c \in Loaded.cols : master_df.rows[i][c] = Loaded.rows[i][c]
              /\ RowsOf(year_2023(df_mangrove), Loaded.rows[i]["State"]) = {}
                    => IsZero(master_df.rows[i]["Mangroves (2023)"])

-----------------------------------------------------------------------------
(* Properties of clean_numeric *)

\* C7: for every str s, clean_numeric(s) is a finite float, never NaN or an
\* infinity.
C7_FiniteResult == (pc = "numeric_done" /\ isinstance_str(val)) => out.t = "float"

\* C8: for every str whose float() parse fails once the commas are removed,
\* clean_numeric returns 0.0 instead of raising.
C8_ParseFailure ==
    (pc = "numeric_done" /\ isinstance_str(val) /\ float(replace(val.v, ",")) = ValueError)
        => IsZero(out)

C8_Witness == pc = "numeric_done" /\ val = raw_na /\ IsZero(out)

-----------------------------------------------------------------------------
(* Properties of clean_state_name *)

====
